---- MODULE Spec2Model ----
(***************************************************************************)
(* A model of the CHIP-8 interpreter core of Phantom217/chip8.            *)
(*                                                                         *)
(* The decoder (opcode.rs), the instruction functions (instruction.rs),    *)
(* the memory (memory.rs), the register file (register.rs) and the value   *)
(* types (types.rs) are translated from the source.  The machine aggregate *)
(* `Chip8` itself (its pc, stack, timers, get_opcode, load_rom and the     *)
(* fetch/decode/execute cycle) is only used by the source, never defined   *)
(* in it: those parts follow the written specification.                    *)
(***************************************************************************)
EXTENDS Integers, Sequences, FiniteSets, TLC

VARIABLES
    chip8,            \* the machine aggregate: ram, regs, i, pc, stack, dt, st, state, err
    opcode,           \* the OpCode of the current cycle (transient, one per cycle)
    instruction,      \* the Instruction decoded from it
    fetch_pc,         \* the address the current opcode was fetched from
    rom,              \* the byte sequence last handed to load_rom
    step,             \* the operation that produced this state
    ticks,            \* number of timer ticks so far
    dt0,              \* DT when the tick count started
    st0,              \* ST when the tick count started
    key,              \* the keypad: the key that is down, or NoKey
    conv,             \* the value conversions of types.rs and opcode.rs applied to conv.bits
    overflow_checks   \* the build: TRUE when integer overflow panics (debug)

vars ==
    <<chip8, opcode, instruction, fetch_pc, rom, step, ticks, dt0, st0, key, conv,
      overflow_checks>>

----------------------------------------------------------------------------
(* Program constants *)

RAM_SIZE == 4096

\* the ETI 660 convention taken for the program start (a mutant)
ETI660_START == 1536

PROGRAM_START == 512

NUM_GP_REGS == 16

STACK_SIZE == 16

(* Bounds of the model *)

MaxTicks == 4

MaxTimer == 2

MaxKey == 1
MaxSliceLen == 3

\* no key is down
NoKey == 0 - 1

U8 == 256

U16 == 65536

----------------------------------------------------------------------------
(* Machine integers *)

RECURSIVE BitAnd(_, _)
\* a & b on unsigned integers, bit by bit
BitAnd(a, b) ==
    IF a = 0 \/ b = 0 THEN 0
    ELSE (a % 2) * (b % 2) + 2 * BitAnd(a \div 2, b \div 2)

RECURSIVE BitOr(_, _)
\* a | b on unsigned integers, bit by bit
BitOr(a, b) ==
    IF a = 0 THEN b
    ELSE IF b = 0 THEN a
    ELSE (IF a % 2 = 1 \/ b % 2 = 1 THEN 1 ELSE 0) + 2 * BitOr(a \div 2, b \div 2)

RECURSIVE Pow2(_)
Pow2(k) == IF k = 0 THEN 1 ELSE 2 * Pow2(k - 1)

\* a >> k
Shr(a, k) == a \div Pow2(k)

\* a << k on u16: the bits shifted out are lost
Shl16(a, k) == (a * Pow2(k)) % U16

\* v as u8: truncation to the low 8 bits
AsU8(v) == v % U8

----------------------------------------------------------------------------
(* types.rs *)

\* Addr::from that keeps the high bits (a mutant)
AddrFrom_unmasked(bits) == << BitAnd(bits, 65535) >>

\* From<u16> for Addr: Self(bits & 0x0FFF); the struct is a one-field tuple
AddrFrom(bits) == << BitAnd(bits, 4095) >>

\* Addr::new
AddrNew(bits) == AddrFrom(bits)

\* Deref for Addr: &self.0
AddrDeref(a) == a[1]

\* From<Addr> for usize: addr.0 as usize
AddrToUsize(a) == a[1]

\* the index an address masked by Addr::from stands for
Addr(bits) == AddrToUsize(AddrFrom(bits))

\* Nibble::from that keeps the high bits (a mutant)
NibbleFrom_unmasked(bits) == << BitAnd(bits, 255) >>

\* From<u8> for Nibble: Self(bits & 0x0F)
NibbleFrom(bits) == << BitAnd(bits, 15) >>

\* Nibble::new
NibbleNew(bits) == NibbleFrom(bits)

\* Deref for Nibble: &self.0
NibbleDeref(n) == n[1]

\* From<Nibble> for usize: nibble.0 as usize
NibbleToUsize(n) == n[1]

\* the index a byte masked by Nibble::from stands for
Nibble(bits) == NibbleToUsize(NibbleFrom(bits))

----------------------------------------------------------------------------
(* opcode.rs *)

\* From<(u8, u8)> for OpCode with the bytes taken low byte first (a mutant)
OpCodeFromPair_little_endian(b1, b2) == BitOr(Shl16(b2, 8), b1)

\* From<(u8, u8)> for OpCode: (b1 as u16) << 8 | (b2 as u16)
OpCodeFromPair(b1, b2) == BitOr(Shl16(b1, 8), b2)

\* From<&[u8; 2]> for OpCode: the same of value[0], value[1]
OpCodeFromArray(value) == BitOr(Shl16(value[1], 8), value[2])

\* TryFrom<&[u8]> for OpCode refusing only slices that are too short (a mutant)
OpCodeTryFrom_short_only(value) ==
    IF Len(value) < 2
    THEN [err |-> <<"invalid slice length for opcode conversion", 2, Len(value)>>]
    ELSE [ok |-> BitOr(Shl16(value[1], 8), value[2])]

\* TryFrom<&[u8]> for OpCode: an error unless the slice has two bytes
OpCodeTryFrom(value) ==
    IF Len(value) # 2
    THEN [err |-> <<"invalid slice length for opcode conversion", 2, Len(value)>>]
    ELSE [ok |-> BitOr(Shl16(value[1], 8), value[2])]

\* the nibble tuple with the low byte's nibbles shifted the wrong way (a mutant)
OpCodeTuple_misshifted(w) ==
    << AsU8(Shr(BitAnd(w, 61440), 12)),
       AsU8(Shr(BitAnd(w, 3840), 8)),
       AsU8(Shr(BitAnd(w, 240), 0)),
       AsU8(Shr(BitAnd(w, 15), 0)) >>

\* From<OpCode> for (u8, u8, u8, u8): mask each nibble, shift it down, as u8
OpCodeTuple(w) ==
    << AsU8(Shr(BitAnd(w, 61440), 12)),
       AsU8(Shr(BitAnd(w, 3840), 8)),
       AsU8(Shr(BitAnd(w, 240), 4)),
       AsU8(Shr(BitAnd(w, 15), 0)) >>

to_match_tuple(w) == OpCodeTuple(w)

\* Operands::Empty
Empty == <<"Empty">>

\* Instruction::new
NewInstruction(w, name, ops, inst) ==
    [opcode |-> w, name |-> name, operands |-> ops, instruction |-> inst]

\* OpCode::decode with the general arm (0, _, _, _) tried first (a mutant)
decode_sys_first(w) ==
    LET t == to_match_tuple(w) IN
    IF t[1] = 0 THEN NewInstruction(w, "SYS", Empty, "sys")
    ELSE IF t = <<0, 0, 14, 0>> THEN NewInstruction(w, "CLS", Empty, "clear")
    ELSE IF t = <<0, 0, 14, 14>> THEN NewInstruction(w, "RET", Empty, "return")
    ELSE NewInstruction(w, "???", Empty, "not_implemented")

\* OpCode::decode with its wildcard arm replaced by a panic (a mutant)
decode_no_wildcard(w) ==
    LET t == to_match_tuple(w) IN
    IF t = <<0, 0, 14, 0>> THEN NewInstruction(w, "CLS", Empty, "clear")
    ELSE IF t = <<0, 0, 14, 14>> THEN NewInstruction(w, "RET", Empty, "return")
    ELSE IF t[1] = 0 THEN NewInstruction(w, "SYS", Empty, "sys")
    ELSE [panic |-> "no match arm"]

\* OpCode::decode: the arms are tried in order
decode(w) ==
    LET t == to_match_tuple(w) IN
    IF t = <<0, 0, 14, 0>> THEN NewInstruction(w, "CLS", Empty, "clear")
    ELSE IF t = <<0, 0, 14, 14>> THEN NewInstruction(w, "RET", Empty, "return")
    ELSE IF t[1] = 0 THEN NewInstruction(w, "SYS", Empty, "sys")
    ELSE NewInstruction(w, "???", Empty, "not_implemented")

----------------------------------------------------------------------------
(* memory.rs, register.rs *)

\* Default for Ram that fills memory with 0xFF (a mutant)
RamDefault_filled == [a \in 0 .. RAM_SIZE - 1 |-> 255]

\* Default for Ram: [0x00; RAM_SIZE]
RamDefault == [a \in 0 .. RAM_SIZE - 1 |-> 0]

\* the bounds check of &self.0[index] on the array of RAM_SIZE bytes: an index
\* out of range is a panic
RamInRange(index) == index < RAM_SIZE

\* Index<usize> for Ram: &self.0[index], for an index in range
RamIndex(ram, index) == ram[index]

\* Default for Regs: [0x00; NUM_GP_REGS]
RegsDefault == [x \in 0 .. NUM_GP_REGS - 1 |-> 0]

\* &self.0[index] on the array of NUM_GP_REGS registers: the bounds-checked
\* access at a usize index, which panics when the index is out of range
RegsAt(regs, index) == [index |-> index, panic |-> ~ (index < NUM_GP_REGS)]

\* Index<u8> for Regs: &self.0[index as usize]
RegsIndexU8(regs, index) == RegsAt(regs, index)

\* IndexMut<u8> for Regs: &mut self.0[index as usize]
RegsIndexMutU8(regs, index) == RegsAt(regs, index)

\* Index<Nibble> for Regs: &self.0[usize::from(index)]
RegsIndexNibble(regs, index) == RegsAt(regs, NibbleToUsize(index))

\* IndexMut<Nibble> for Regs: &mut self.0[usize::from(index)]
RegsIndexMutNibble(regs, index) == RegsAt(regs, NibbleToUsize(index))

----------------------------------------------------------------------------
(* The machine aggregate Chip8 *)

\* Chip8::new: zero-filled memory and registers, PC at the program start
\* no instruction decoded yet
NoInstruction == [none |-> TRUE]

Chip8New ==
    [ ram   |-> RamDefault,
      regs  |-> RegsDefault,
      i     |-> 0,
      pc    |-> PROGRAM_START,
      stack |-> << >>,
      dt    |-> 0,
      st    |-> 0,
      state |-> "Created",
      wait_x |-> 0,
      fb    |-> {},
      log   |-> NoInstruction,
      err   |-> "None" ]

\* a panic unwinds out of the interpreter: the process is gone
Panic(m) == [m EXCEPT !.state = "Panicked"]

\* Chip8::get_opcode: the two bytes at addr, high byte first
get_opcode(m, addr) ==
    OpCodeFromPair(RamIndex(m.ram, Addr(addr)), RamIndex(m.ram, Addr(addr + 1)))

\* the addresses Chip8::get_opcode reads
get_opcode_reads(addr) == {Addr(addr), Addr(addr + 1)}

\* Chip8::get_opcode panics when a byte it reads is out of range
get_opcode_panics(addr) == \E a \in get_opcode_reads(addr) : ~ RamInRange(a)

\* Chip8::load_rom writing before it checks the size (a mutant)
load_rom_partial(m, bytes) ==
    LET n == IF Len(bytes) > RAM_SIZE - PROGRAM_START
             THEN RAM_SIZE - PROGRAM_START ELSE Len(bytes)
        written == [a \in 0 .. RAM_SIZE - 1 |->
                      IF a >= PROGRAM_START /\ a < PROGRAM_START + n
                      THEN bytes[a - PROGRAM_START + 1] ELSE m.ram[a]]
    IN IF Len(bytes) > RAM_SIZE - PROGRAM_START
       THEN [m EXCEPT !.ram = written, !.err = "Capacity"]
       ELSE [m EXCEPT !.ram = written, !.err = "None", !.state = "Running"]

\* Chip8::load_rom: all of the ROM at PROGRAM_START, or a capacity error and no write
load_rom(m, bytes) ==
    IF Len(bytes) > RAM_SIZE - PROGRAM_START
    THEN [m EXCEPT !.err = "Capacity"]
    ELSE [m EXCEPT
            !.ram = [a \in 0 .. RAM_SIZE - 1 |->
                       IF a >= PROGRAM_START /\ a < PROGRAM_START + Len(bytes)
                       THEN bytes[a - PROGRAM_START + 1] ELSE m.ram[a]],
            !.err = "None",
            !.state = "Running"]

----------------------------------------------------------------------------
(* instruction.rs *)

\* not_implemented that clobbers a register while reporting (a mutant)
not_implemented_clobber(m, operands) ==
    [m EXCEPT !.regs[0] = (m.regs[0] + 1) % U8]

\* not_implemented decoding the opcode at pc, not at pc - 2 (a mutant)
not_implemented_at_pc(m, operands) ==
    IF get_opcode_panics(m.pc)
    THEN Panic(m)
    ELSE [m EXCEPT !.log = decode(get_opcode(m, m.pc))]

\* not_implemented: decodes the opcode at pc - 2 again and logs it; log is the
\* instruction of the last warning written
not_implemented(m, operands) ==
    IF (m.pc < 2 /\ overflow_checks) \/ get_opcode_panics((m.pc - 2) % U16)
    THEN Panic(m)
    ELSE [m EXCEPT !.log = decode(get_opcode(m, (m.pc - 2) % U16))]

\* sys, clear, return: todo!()
sys(m, operands) == Panic(m)

clear(m, operands) == Panic(m)

return(m, operands) == Panic(m)

\* Instruction::exec: call the instruction's function on its operands
exec(inst, m) ==
    CASE inst.instruction = "clear"           -> clear(m, inst.operands)
      [] inst.instruction = "return"          -> return(m, inst.operands)
      [] inst.instruction = "sys"             -> sys(m, inst.operands)
      [] inst.instruction = "not_implemented" -> not_implemented(m, inst.operands)

----------------------------------------------------------------------------
(* The execution engine *)

\* one instruction cycle: fetch at PC, decode, advance PC by 2, execute
cycle(m) ==
    LET w == get_opcode(m, m.pc)
        advanced == [m EXCEPT !.pc = (m.pc + 2) % U16]
    IN IF get_opcode_panics(m.pc) THEN Panic(m) ELSE exec(decode(w), advanced)

\* a timer tick that wraps below zero (a mutant)
timer_tick_wrapping(m) ==
    [m EXCEPT !.dt = (m.dt + U8 - 1) % U8, !.st = (m.st + U8 - 1) % U8]

\* a timer tick that stands still while the engine waits for a key (a mutant)
timer_tick_paused(m) ==
    IF m.state = "WaitingForKey" THEN m
    ELSE [m EXCEPT !.dt = IF m.dt > 0 THEN m.dt - 1 ELSE 0,
                   !.st = IF m.st > 0 THEN m.st - 1 ELSE 0]

\* one 60 Hz timer tick
timer_tick(m) ==
    [m EXCEPT !.dt = IF m.dt > 0 THEN m.dt - 1 ELSE 0,
              !.st = IF m.st > 0 THEN m.st - 1 ELSE 0]

----------------------------------------------------------------------------
(* The execution engine, continued *)

\* a key-press event: completes a pending Fx0A, otherwise only the keypad changes
key_pressed(m, k) ==
    IF m.state = "WaitingForKey"
    THEN [m EXCEPT !.regs[m.wait_x] = k, !.state = "Running"]
    ELSE m

----------------------------------------------------------------------------
(* Inputs *)

\* the opcode with nibbles n0 n1 n2 n3
Op(n0, n1, n2, n3) == n0 * 4096 + n1 * 256 + n2 * 16 + n3

\* the bytes of a program given as a sequence of opcodes, high byte first
Program(ops) ==
    [k \in 1 .. 2 * Len(ops) |->
       IF k % 2 = 1 THEN ops[(k + 1) \div 2] \div 256 ELSE ops[k \div 2] % 256]

\* n bytes, none of them zero
Filler(n) == [k \in 1 .. n |-> ((k - 1) % 251) + 1]

\* opcodes of no row of the dispatch table
RomUnrecognized ==
    Program(<<Op(5,0,0,1), Op(5,15,15,15), Op(8,0,0,8), Op(8,1,2,13), Op(8,3,4,15),
              Op(9,0,0,1), Op(9,15,0,15), Op(14,0,0,0), Op(14,1,9,15), Op(14,2,10,0),
              Op(15,0,0,0), Op(15,3,0,8), Op(15,4,6,6), Op(15,15,15,15)>>)

\* the four skips, condition true and false, then RET
RomSkips ==
    Program(<<Op(3,0,0,0), Op(4,0,0,1), Op(5,0,0,0), Op(9,0,1,0),
              Op(3,0,0,1), Op(4,0,0,0), Op(9,0,0,0), Op(0,0,14,14)>>)

\* CALL 0x204; JP 0x200; RET
RomCallRet == Program(<<Op(2,2,0,4), Op(1,2,0,0), Op(0,0,14,14)>>)

\* LD V0, K; LD V0, 5; CLS
RomWaitKey == Program(<<Op(15,0,0,10), Op(6,0,0,5), Op(0,0,14,0)>>)

\* seventeen nested CALLs, each to the next instruction, then RET
RomCalls ==
    Program([k \in 1 .. 18 |-> IF k <= 17 THEN Op(2,2,0,0) + 2 * k ELSE Op(0,0,14,14)])

\* RET on an empty stack
RomRet == Program(<<Op(0,0,14,14)>>)

\* LD V0, 2; LD DT, V0; LD ST, V0; ADD V0, 1; SYS 0x123
RomTimers ==
    Program(<<Op(6,0,0,2), Op(15,0,1,5), Op(15,0,1,8), Op(7,0,0,1), Op(0,1,2,3)>>)

\* ADD V0, 1; LD I, 0x300; RND V1, 0x0F
RomPlain == Program(<<Op(7,0,0,1), Op(10,3,0,0), Op(12,1,0,15)>>)

Roms ==
    { RomUnrecognized, RomSkips, RomCallRet, RomWaitKey, RomCalls, RomRet,
      RomTimers, RomPlain, << >>,
      Filler(3584), Filler(3585), Filler(3586) }

----------------------------------------------------------------------------
(* Specification: the machine from construction on *)

\* no conversion applied yet
NoConv == [bits |-> 0, done |-> FALSE]

Init ==
    /\ chip8 = Chip8New
    /\ opcode = 0
    /\ instruction = NoInstruction
    /\ fetch_pc = 0
    /\ rom = << >>
    /\ step = "new"
    /\ ticks = 0
    /\ dt0 = 0
    /\ st0 = 0
    /\ key = NoKey
    /\ conv = NoConv
    /\ overflow_checks \in BOOLEAN

LoadRom ==
    /\ chip8.state = "Created"
    /\ chip8.err = "None"
    /\ \E bytes \in Roms :
         /\ rom' = bytes
         /\ chip8' = load_rom(chip8, bytes)
    /\ step' = "load"
    /\ UNCHANGED <<opcode, instruction, fetch_pc, ticks, dt0, st0, key, conv, overflow_checks>>

Cycle ==
    /\ chip8.state = "Running"
    /\ fetch_pc' = chip8.pc
    /\ opcode' = IF get_opcode_panics(chip8.pc) THEN opcode
                  ELSE get_opcode(chip8, chip8.pc)
    /\ instruction' = IF get_opcode_panics(chip8.pc) THEN instruction
                       ELSE decode(get_opcode(chip8, chip8.pc))
    /\ chip8' = cycle(chip8)
    /\ step' = "cycle"
    /\ UNCHANGED <<rom, ticks, dt0, st0, key, conv, overflow_checks>>

Tick ==
    /\ chip8.state \in {"Running", "WaitingForKey"}
    /\ ticks < MaxTicks
    /\ chip8' = timer_tick(chip8)
    /\ ticks' = ticks + 1
    /\ step' = "tick"
    /\ UNCHANGED <<opcode, instruction, fetch_pc, rom, dt0, st0, key, conv, overflow_checks>>

KeyPress ==
    /\ chip8.state \in {"Running", "WaitingForKey"}
    /\ key = NoKey
    /\ \E k \in 0 .. MaxKey :
         /\ key' = k
         /\ chip8' = key_pressed(chip8, k)
    /\ step' = "key"
    /\ UNCHANGED <<opcode, instruction, fetch_pc, rom, ticks, dt0, st0, conv, overflow_checks>>

KeyRelease ==
    /\ chip8.state \in {"Running", "WaitingForKey"}
    /\ key # NoKey
    /\ key' = NoKey
    /\ step' = "key"
    /\ UNCHANGED <<chip8, opcode, instruction, fetch_pc, rom, ticks, dt0, st0, conv, overflow_checks>>

Stop ==
    /\ chip8.state \in {"Running", "WaitingForKey"}
    /\ chip8' = [chip8 EXCEPT !.state = "Halted"]
    /\ step' = "stop"
    /\ UNCHANGED <<opcode, instruction, fetch_pc, rom, ticks, dt0, st0, key, conv, overflow_checks>>

Next == LoadRom \/ Cycle \/ Tick \/ KeyPress \/ KeyRelease \/ Stop

Spec == Init /\ [][Next]_vars

----------------------------------------------------------------------------
(* Specification: decode as a function of the opcode *)

InitDecode ==
    /\ chip8 = Chip8New
    /\ opcode \in 0 .. U16 - 1
    /\ instruction = NoInstruction
    /\ fetch_pc = 0
    /\ rom = << >>
    /\ step = "new"
    /\ ticks = 0
    /\ dt0 = 0
    /\ st0 = 0
    /\ key = NoKey
    /\ conv = NoConv
    /\ overflow_checks = FALSE

Decode ==
    /\ step = "new"
    /\ instruction' = decode(opcode)
    /\ step' = "decode"
    /\ UNCHANGED <<chip8, opcode, fetch_pc, rom, ticks, dt0, st0, key, conv, overflow_checks>>

NextDecode == Decode

SpecDecode == InitDecode /\ [][NextDecode]_vars

----------------------------------------------------------------------------
(* Specification: the value conversions, as functions of a 16-bit input *)

InitTypes ==
    /\ chip8 = Chip8New
    /\ opcode = 0
    /\ instruction = NoInstruction
    /\ fetch_pc = 0
    /\ rom = << >>
    /\ step = "new"
    /\ ticks = 0
    /\ dt0 = 0
    /\ st0 = 0
    /\ key = NoKey
    /\ \E b \in 0 .. U16 - 1 : conv = [bits |-> b, done |-> FALSE]
    /\ overflow_checks = FALSE

\* every conversion applied to the input: the 16 bits, its low byte, its two bytes
Convert ==
    /\ ~ conv.done
    /\ LET b == conv.bits
           b1 == conv.bits \div 256
           b2 == conv.bits % 256
       IN conv' =
            [ bits         |-> b,
              done         |-> TRUE,
              addr_from    |-> AddrFrom(b),
              addr_new     |-> AddrNew(b),
              addr_deref   |-> AddrDeref(AddrFrom(b)),
              addr_usize   |-> AddrToUsize(AddrFrom(b)),
              addr_again   |-> AddrFrom(AddrDeref(AddrFrom(b))),
              nibble_from  |-> NibbleFrom(b2),
              nibble_new   |-> NibbleNew(b2),
              nibble_deref |-> NibbleDeref(NibbleFrom(b2)),
              nibble_usize |-> NibbleToUsize(NibbleFrom(b2)),
              tuple        |-> to_match_tuple(b),
              from_pair    |-> OpCodeFromPair(b1, b2),
              from_array   |-> OpCodeFromArray(<<b1, b2>>),
              try_from     |-> OpCodeTryFrom(<<b1, b2>>),
              regs_u8      |-> RegsIndexU8(RegsDefault, b2),
              regs_mut_u8  |-> RegsIndexMutU8(RegsDefault, b2),
              regs_nibble  |-> RegsIndexNibble(RegsDefault, NibbleFrom(b2)),
              regs_mut_nibble |-> RegsIndexMutNibble(RegsDefault, NibbleFrom(b2)) ]
    /\ step' = "convert"
    /\ UNCHANGED <<chip8, opcode, instruction, fetch_pc, rom, ticks, dt0, st0, key,
                   overflow_checks>>

NextTypes == Convert

SpecTypes == InitTypes /\ [][NextTypes]_vars

----------------------------------------------------------------------------
(* Specification: an opcode from a byte slice of any length *)

\* the bytes of the slices
SliceBytes == {0, 1, 171, 255}

RECURSIVE Slices(_)
\* the slices of n bytes
Slices(n) ==
    IF n = 0 THEN { << >> }
    ELSE { Append(s, b) : s \in Slices(n - 1), b \in SliceBytes }

InitSlice ==
    /\ \E n \in 0 .. MaxSliceLen : \E s \in Slices(n) :
         conv = [bits |-> 0, done |-> FALSE, slice |-> s]
    /\ chip8 = Chip8New
    /\ opcode = 0
    /\ instruction = NoInstruction
    /\ fetch_pc = 0
    /\ rom = << >>
    /\ step = "new"
    /\ ticks = 0
    /\ dt0 = 0
    /\ st0 = 0
    /\ key = NoKey
    /\ overflow_checks = FALSE

\* OpCode::try_from applied to the slice
TryFromSlice ==
    /\ ~ conv.done
    /\ conv' = [conv EXCEPT !.done = TRUE] @@ [try_from |-> OpCodeTryFrom(conv.slice)]
    /\ step' = "try_from"
    /\ UNCHANGED <<chip8, opcode, instruction, fetch_pc, rom, ticks, dt0, st0, key,
                   overflow_checks>>

NextSlice == TryFromSlice

SpecSlice == InitSlice /\ [][NextSlice]_vars

----------------------------------------------------------------------------
(* Specification: one arithmetic or BCD instruction, from any register values *)

\* the register values an instruction is run on
RegValues == {0, 1, 2, 3, 4, 5, 60, 127, 128, 234, 254, 255}

\* DRW V0, V1, 1 with its one-row sprite 0xFF at 0x300
RomDraw ==
    [k \in 1 .. 257 |->
       IF k = 1 THEN 208 ELSE IF k = 2 THEN 17 ELSE IF k = 257 THEN 255 ELSE 0]

\* one-instruction programs on V0 and V1: ADD, SUB, SUBN, SHR, SHL, LD B, DRW
InstrRoms ==
    { Program(<<Op(8,0,1,4)>>), Program(<<Op(8,0,1,5)>>), Program(<<Op(8,0,1,7)>>),
      Program(<<Op(8,0,1,6)>>), Program(<<Op(8,0,1,14)>>), Program(<<Op(15,0,3,3)>>),
      RomDraw }

InitInstr ==
    /\ \E bytes \in InstrRoms, vx \in RegValues, vy \in RegValues :
         /\ rom = bytes
         /\ chip8 = [load_rom(Chip8New, bytes)
                       EXCEPT !.regs[0] = vx, !.regs[1] = vy, !.i = 768]
    /\ opcode = 0
    /\ instruction = NoInstruction
    /\ fetch_pc = 0
    /\ step = "load"
    /\ ticks = 0
    /\ dt0 = 0
    /\ st0 = 0
    /\ key = NoKey
    /\ conv = NoConv
    /\ overflow_checks = FALSE

NextInstr == Cycle

SpecInstr == InitInstr /\ [][NextInstr]_vars

----------------------------------------------------------------------------
(* Specification: a program that fills memory, run to the end of memory *)

\* RAM_SIZE - PROGRAM_START bytes 0x10: the unrecognized opcode 0x1010 throughout
RomFull == [k \in 1 .. RAM_SIZE - PROGRAM_START |-> 16]

\* the run is taken up after no cycle and four cycles before the end of memory
MemCyclesDone == {0, (RAM_SIZE - PROGRAM_START) \div 2 - 4}

\* the machine after n cycles of RomFull: n unrecognized opcodes passed over
InitMem ==
    /\ rom = RomFull
    /\ \E n \in MemCyclesDone :
         /\ chip8 = [load_rom(Chip8New, RomFull)
                       EXCEPT !.pc = PROGRAM_START + 2 * n,
                              !.log = IF n = 0 THEN NoInstruction
                                      ELSE decode(Op(1,0,1,0))]
         /\ step = (IF n = 0 THEN "load" ELSE "cycle")
         /\ fetch_pc = (IF n = 0 THEN 0 ELSE PROGRAM_START + 2 * n - 2)
         /\ opcode = (IF n = 0 THEN 0 ELSE Op(1,0,1,0))
         /\ instruction = (IF n = 0 THEN NoInstruction ELSE decode(Op(1,0,1,0)))
    /\ ticks = 0
    /\ dt0 = 0
    /\ st0 = 0
    /\ key = NoKey
    /\ conv = NoConv
    /\ overflow_checks \in BOOLEAN

NextMem == Cycle

SpecMem == InitMem /\ [][NextMem]_vars

----------------------------------------------------------------------------
(* Specification: the timers, from any timer values *)

TimerValues == (0 .. MaxTimer) \cup {255}

TimerRoms == {RomUnrecognized, RomPlain}

InitTimer ==
    /\ \E bytes \in TimerRoms, d \in TimerValues, s \in TimerValues :
         /\ rom = bytes
         /\ chip8 = [load_rom(Chip8New, bytes) EXCEPT !.dt = d, !.st = s]
         /\ dt0 = d
         /\ st0 = s
    /\ opcode = 0
    /\ instruction = NoInstruction
    /\ fetch_pc = 0
    /\ step = "load"
    /\ ticks = 0
    /\ key = NoKey
    /\ conv = NoConv
    /\ overflow_checks \in BOOLEAN

NextTimer == Cycle \/ Tick

SpecTimer == InitTimer /\ [][NextTimer]_vars

----------------------------------------------------------------------------
(* Specification: the timers while the engine waits for a key *)

\* the machine as Fx0A of RomWaitKey leaves it: waiting for a key for V0, PC
\* advanced past the instruction, with any timer values
InitWait ==
    /\ \E d \in TimerValues, s \in TimerValues :
         /\ chip8 = [load_rom(Chip8New, RomWaitKey)
                       EXCEPT !.dt = d, !.st = s, !.state = "WaitingForKey",
                              !.wait_x = 0, !.pc = PROGRAM_START + 2]
         /\ dt0 = d
         /\ st0 = s
    /\ rom = RomWaitKey
    /\ opcode = Op(15,0,0,10)
    /\ instruction = decode(Op(15,0,0,10))
    /\ fetch_pc = PROGRAM_START
    /\ step = "cycle"
    /\ ticks = 0
    /\ key = NoKey
    /\ conv = NoConv
    /\ overflow_checks \in BOOLEAN

NextWait == Cycle \/ Tick \/ KeyPress \/ KeyRelease

SpecWait == InitWait /\ [][NextWait]_vars

----------------------------------------------------------------------------
(* The dispatch table of the written specification, section 4.3 *)

N0(w) == (w \div 4096) % 16
N1(w) == (w \div 256) % 16
N2(w) == (w \div 16) % 16
N3(w) == w % 16
NNN(w) == w % 4096
KK(w) == w % 256

\* the mnemonic of the table row w matches, "???" when it matches none
TableName(w) ==
    CASE w = 224 -> "CLS"
      [] w = 238 -> "RET"
      [] N0(w) = 0 /\ w \notin {224, 238} -> "SYS"
      [] N0(w) = 1 -> "JP"
      [] N0(w) = 2 -> "CALL"
      [] N0(w) = 3 -> "SE"
      [] N0(w) = 4 -> "SNE"
      [] N0(w) = 5 /\ N3(w) = 0 -> "SE"
      [] N0(w) = 6 -> "LD"
      [] N0(w) = 7 -> "ADD"
      [] N0(w) = 8 /\ N3(w) = 0 -> "LD"
      [] N0(w) = 8 /\ N3(w) = 1 -> "OR"
      [] N0(w) = 8 /\ N3(w) = 2 -> "AND"
      [] N0(w) = 8 /\ N3(w) = 3 -> "XOR"
      [] N0(w) = 8 /\ N3(w) = 4 -> "ADD"
      [] N0(w) = 8 /\ N3(w) = 5 -> "SUB"
      [] N0(w) = 8 /\ N3(w) = 6 -> "SHR"
      [] N0(w) = 8 /\ N3(w) = 7 -> "SUBN"
      [] N0(w) = 8 /\ N3(w) = 14 -> "SHL"
      [] N0(w) = 9 /\ N3(w) = 0 -> "SNE"
      [] N0(w) = 10 -> "LD"
      [] N0(w) = 11 -> "JP"
      [] N0(w) = 12 -> "RND"
      [] N0(w) = 13 -> "DRW"
      [] N0(w) = 14 /\ KK(w) = 158 -> "SKP"
      [] N0(w) = 14 /\ KK(w) = 161 -> "SKNP"
      [] N0(w) = 15 /\ KK(w) \in {7, 10, 21, 24, 41, 51, 85, 101} -> "LD"
      [] N0(w) = 15 /\ KK(w) = 30 -> "ADD"
      [] OTHER -> "???"

\* the operand shape of the table row w matches
TableOperands(w) ==
    CASE w \in {224, 238} -> <<"Empty">>
      [] N0(w) \in {0, 1, 2, 10, 11} /\ w \notin {224, 238} -> <<"Address", NNN(w)>>
      [] N0(w) \in {3, 4, 6, 7, 12} -> <<"RegAndConst", N1(w), KK(w)>>
      [] N0(w) \in {5, 9} /\ N3(w) = 0 -> <<"Regs", N1(w), N2(w)>>
      [] N0(w) = 8 /\ N3(w) \in {0, 1, 2, 3, 4, 5, 7} -> <<"Regs", N1(w), N2(w)>>
      [] N0(w) = 8 /\ N3(w) \in {6, 14} -> <<"Reg", N1(w)>>
      [] N0(w) = 13 -> <<"RegsAndConst", N1(w), N2(w), N3(w)>>
      [] N0(w) = 14 /\ KK(w) \in {158, 161} -> <<"Reg", N1(w)>>
      [] N0(w) = 15 /\ KK(w) \in {7, 10, 21, 24, 30, 41, 51, 85, 101} -> <<"Reg", N1(w)>>
      [] OTHER -> <<"Empty">>

Unrecognized(w) == TableName(w) = "???"

IsCall(w) == N0(w) = 2
IsRet(w) == w = 238
IsWaitKey(w) == N0(w) = 15 /\ KK(w) = 10
IsSkip(w) == N0(w) \in {3, 4} \/ (N0(w) \in {5, 9} /\ N3(w) = 0)

\* whether the skip w is taken in machine m
SkipTaken(w, m) ==
    CASE N0(w) = 3 -> m.regs[N1(w)] = KK(w)
      [] N0(w) = 4 -> m.regs[N1(w)] # KK(w)
      [] N0(w) = 5 -> m.regs[N1(w)] = m.regs[N2(w)]
      [] N0(w) = 9 -> m.regs[N1(w)] # m.regs[N2(w)]

\* the well-formed values of Instruction
Mnemonics ==
    {"CLS", "RET", "SYS", "JP", "CALL", "SE", "SNE", "LD", "ADD", "OR", "AND", "XOR",
     "SUB", "SHR", "SUBN", "SHL", "RND", "DRW", "SKP", "SKNP", "???"}

InstrFns ==
    {"not_implemented", "sys", "clear", "return", "jump", "call", "skip_eq_byte",
     "skip_ne_byte", "skip_eq", "load_byte", "add_byte", "load", "or", "and", "xor",
     "add", "sub", "shift_right", "sub_inv", "shift_left", "skip_ne", "load_i", "jump0",
     "rand_byte", "draw_sprite", "skip_pressed", "skip_not_pressed", "load_dt",
     "wait_for_key", "set_delay_timer", "set_sound_timer", "add_i", "load_sprite",
     "store_bcd", "store_regs", "load_regs"}

IsOperands(o) ==
    \/ o = <<"Empty">>
    \/ Len(o) = 2 /\ o[1] = "Address" /\ o[2] \in 0 .. 4095
    \/ Len(o) = 2 /\ o[1] = "Reg" /\ o[2] \in 0 .. 15
    \/ Len(o) = 3 /\ o[1] = "Regs" /\ o[2] \in 0 .. 15 /\ o[3] \in 0 .. 15
    \/ Len(o) = 3 /\ o[1] = "RegAndConst" /\ o[2] \in 0 .. 15 /\ o[3] \in 0 .. 255
    \/ Len(o) = 4 /\ o[1] = "RegsAndConst" /\ o[2] \in 0 .. 15 /\ o[3] \in 0 .. 15
         /\ o[4] \in 0 .. 15

IsInstruction(v) ==
    /\ DOMAIN v = {"opcode", "name", "operands", "instruction"}
    /\ v.opcode \in 0 .. U16 - 1
    /\ v.name \in Mnemonics
    /\ v.instruction \in InstrFns
    /\ IsOperands(v.operands)

\* everything of the machine but its timers and engine state
Core(m) == <<m.ram, m.regs, m.i, m.pc, m.stack>>

Max(a, b) == IF a >= b THEN a ELSE b

\* no opcode of the program is Fx15 (LD DT, Vx) or Fx18 (LD ST, Vx)
NoTimerLoads(bytes) ==
    \A k \in 1 .. Len(bytes) \div 2 :
        ~ (bytes[2 * k - 1] \div 16 = 15 /\ bytes[2 * k] \in {21, 24})

----------------------------------------------------------------------------
(* Claims *)

\* C1: for every 16-bit opcode, decode returns an Instruction (a record of the
\* opcode itself, a mnemonic, operands and an instruction function): it never
\* panics and leaves no value unmapped.
C1_DecodeTotal ==
    step = "decode" => (IsInstruction(instruction) /\ instruction.opcode = opcode)

\* C1 witness: an opcode of the wildcard arm has been decoded.
C1_Witness ==
    step = "decode" /\ opcode = U16 - 1 /\ instruction.name = "???"

\* C2: an instruction cycle on an opcode of no table row changes neither the
\* registers, I, the stack, the timers nor memory, leaves PC at the fetch
\* address + 2 and leaves the engine Running.
C2_UnrecognizedIsNoOp ==
    [][ (step' = "cycle" /\ Unrecognized(opcode'))
          => /\ chip8'.regs = chip8.regs
             /\ chip8'.i = chip8.i
             /\ chip8'.stack = chip8.stack
             /\ chip8'.dt = chip8.dt
             /\ chip8'.st = chip8.st
             /\ chip8'.ram = chip8.ram
             /\ fetch_pc' = chip8.pc
             /\ chip8'.pc = chip8.pc + 2
             /\ chip8'.state = "Running"
             /\ chip8'.err = "None" ]_vars

\* C2 witness: a cycle has run on an unrecognized opcode and the engine still runs.
C2_Witness ==
    /\ step = "cycle"
    /\ Unrecognized(opcode)
    /\ chip8.state = "Running"
    /\ chip8.pc = fetch_pc + 2
    /\ fetch_pc > PROGRAM_START

\* C3: decode implements exactly the dispatch table: each opcode decodes to the
\* mnemonic and the operand shape of the row it matches, and to the
\* unrecognized instruction only when it matches none.
C3_DecodeIsTable ==
    step = "decode"
      => /\ instruction.name = TableName(opcode)
         /\ instruction.operands = TableOperands(opcode)

\* C4: a CALL at stack depth below 16 succeeds and pushes, a CALL at depth 16
\* fails with a stack overflow, a RET on an empty stack fails with a stack
\* underflow, and the depth is always within 0..16.
C4_StackBounds ==
    [][ step' = "cycle"
          => /\ (IsCall(opcode') /\ Len(chip8.stack) < STACK_SIZE)
                   => /\ Len(chip8'.stack) = Len(chip8.stack) + 1
                      /\ chip8'.err = "None"
             /\ (IsCall(opcode') /\ Len(chip8.stack) = STACK_SIZE)
                   => chip8'.err = "StackOverflow"
             /\ (IsRet(opcode') /\ chip8.stack = << >>)
                   => chip8'.err = "StackUnderflow"
             /\ Len(chip8'.stack) \in 0 .. STACK_SIZE ]_vars

\* C5: a CALL fetched at address a leaves a + 2 on top of the stack and jumps
\* to its target; the matching RET sets PC to that a + 2 and pops it, which
\* restores the depth before the CALL.
C5_CallThenRet ==
    [][ step' = "cycle"
          => /\ (IsCall(opcode') /\ Len(chip8.stack) < STACK_SIZE)
                   => /\ chip8'.stack = Append(chip8.stack, chip8.pc + 2)
                      /\ chip8'.pc = NNN(opcode')
             /\ (IsRet(opcode') /\ chip8.stack # << >>)
                   => /\ chip8'.pc = chip8.stack[Len(chip8.stack)]
                      /\ chip8'.stack = SubSeq(chip8.stack, 1, Len(chip8.stack) - 1) ]_vars

\* C6: a stack overflow or underflow halts the engine and is surfaced as an
\* error; once Halted, PC, registers, stack and memory never change again.
C6_StackErrorHalts ==
    [][ /\ (step' = "cycle"
              /\ \/ IsCall(opcode') /\ Len(chip8.stack) = STACK_SIZE
                 \/ IsRet(opcode') /\ chip8.stack = << >>)
          => /\ chip8'.state = "Halted"
             /\ chip8'.err \in {"StackOverflow", "StackUnderflow"}
        /\ chip8.state = "Halted"
          => /\ Core(chip8') = Core(chip8)
             /\ chip8'.state = "Halted" ]_vars

\* C7: with no Fx15/Fx18 executed, after k timer ticks DT = max(DT0 - k, 0)
\* and ST = max(ST0 - k, 0), however many instruction cycles ran in between:
\* each tick takes 1 off a nonzero timer and leaves a zero timer at zero.
C7_TimersCountDown ==
    NoTimerLoads(rom)
      => /\ chip8.dt = Max(dt0 - ticks, 0)
         /\ chip8.st = Max(st0 - ticks, 0)

\* C7 witness: DT started at 2, more ticks than that have passed with
\* instruction cycles in between, and DT rests at 0 while ST still counts.
C7_Witness ==
    /\ dt0 = 2
    /\ st0 = 255
    /\ ticks = 3
    /\ step = "tick"
    /\ fetch_pc > PROGRAM_START
    /\ chip8.dt = 0
    /\ chip8.st = 252

\* C8: executing Fx0A moves the engine to WaitingForKey; while waiting, no
\* instruction is fetched and PC does not change; a key press k then sets Vx
\* to k and returns the engine to Running.
C8_WaitForKey ==
    [][ /\ (step' = "cycle" /\ IsWaitKey(opcode'))
          => /\ chip8'.state = "WaitingForKey"
             /\ chip8'.wait_x = N1(opcode')
        /\ chip8.state = "WaitingForKey"
          => /\ step' # "cycle"
             /\ chip8'.pc = chip8.pc
             /\ step' = "key" /\ key' # NoKey
                  => /\ chip8'.regs[chip8.wait_x] = key'
                     /\ chip8'.state = "Running" ]_vars

\* C9: a skip instruction fetched at a leaves PC at a + 4 when its condition
\* holds and at a + 2 otherwise, and changes nothing else.
C9_SkipBy4Or2 ==
    [][ (step' = "cycle" /\ IsSkip(opcode'))
          => /\ chip8'.pc = chip8.pc + (IF SkipTaken(opcode', chip8) THEN 4 ELSE 2)
             /\ chip8'.regs = chip8.regs
             /\ chip8'.dt = chip8.dt
             /\ chip8'.st = chip8.st
             /\ chip8'.stack = chip8.stack
             /\ chip8'.ram = chip8.ram ]_vars

C11_AddrMasksTo12Bits ==
    conv.done
      => /\ conv.addr_deref = conv.bits % 4096
         /\ conv.addr_deref \in 0 .. 4095
         /\ conv.addr_usize = conv.addr_deref
         /\ conv.addr_new = conv.addr_from
         /\ conv.addr_again = conv.addr_from

\* C11 witness: 0xBEEF has been converted and the Addr holds 0xEEF.
C11_Witness ==
    conv.done /\ conv.bits = 48879 /\ conv.addr_deref = 3823

\* C12: for every 8-bit b, Nibble::from(b) and Nibble::new(b) hold b mod 16, a
\* value of 0..15; Deref and the usize conversion return that value.
C12_NibbleMasksTo4Bits ==
    conv.done
      => /\ conv.nibble_deref = (conv.bits % 256) % 16
         /\ conv.nibble_deref \in 0 .. 15
         /\ conv.nibble_usize = conv.nibble_deref
         /\ conv.nibble_new = conv.nibble_from

\* C12 witness: the byte 0xAF has been converted and the Nibble holds 0x0F.
C12_Witness ==
    conv.done /\ conv.bits % 256 = 175 /\ conv.nibble_deref = 15

\* C13: for every 16-bit opcode w, to_match_tuple gives four nibbles of 0..15
\* with n0*4096 + n1*256 + n2*16 + n3 = w, so that addr = n1n2n3, x = n1,
\* y = n2, kk = n2n3 and nibble = n3 are the fields of w.
C13_TupleIsLossless ==
    conv.done
      => LET t == conv.tuple IN
         /\ Len(t) = 4
         /\ \A k \in 1 .. 4 : t[k] \in 0 .. 15
         /\ (t[1] * 4096) + (t[2] * 256) + (t[3] * 16) + t[4] = conv.bits
         /\ (t[2] * 256) + (t[3] * 16) + t[4] = conv.bits % 4096
         /\ (t[3] * 16) + t[4] = conv.bits % 256

\* C13 witness: 0xFACE has been split into (0xF, 0xA, 0xC, 0xE).
C13_Witness ==
    conv.done /\ conv.bits = 64206 /\ conv.tuple = <<15, 10, 12, 14>>

\* C14: for all bytes (b1, b2), with b1 the first of the two, the opcode is
\* b1*256 + b2, and the constructors from a slice, from an array reference
\* and from a pair give the same opcode.
C14_OpCodeIsBigEndian ==
    conv.done
      => /\ conv.from_pair = ((conv.bits \div 256) * 256) + (conv.bits % 256)
         /\ conv.from_array = conv.from_pair
         /\ conv.try_from = [ok |-> conv.from_pair]

\* C14 witness: the bytes (0xFA, 0xCE) have been made the opcode 0xFACE.
C14_Witness ==
    conv.done /\ conv.bits \div 256 = 250 /\ conv.bits % 256 = 206
      /\ conv.from_pair = 64206

\* the decimal digits of v: hundreds, tens, ones
Bcd(v) == << v \div 100, (v \div 10) % 10, v % 10 >>

IsAdd(w) == N0(w) = 8 /\ N3(w) = 4
IsSub(w) == N0(w) = 8 /\ N3(w) = 5
IsSubn(w) == N0(w) = 8 /\ N3(w) = 7
IsShr(w) == N0(w) = 8 /\ N3(w) = 6
IsShl(w) == N0(w) = 8 /\ N3(w) = 14
IsBcd(w) == N0(w) = 15 /\ KK(w) = 51

\* C15: 8xy4 (ADD Vx, Vy) sets Vx to (Vx + Vy) mod 256 and VF to 1 if
\* Vx + Vy > 255 and to 0 otherwise, and the overflow is not an error.
C15_AddSetsCarry ==
    [][ (step' = "cycle" /\ IsAdd(opcode'))
          => LET x == N1(opcode')
                 sum == chip8.regs[N1(opcode')] + chip8.regs[N2(opcode')]
             IN /\ chip8'.state = "Running"
                /\ chip8'.regs[15] = (IF sum > 255 THEN 1 ELSE 0)
                /\ x # 15 => chip8'.regs[x] = sum % 256 ]_vars

\* C16: 8xy5 (SUB) sets VF to 1 exactly when Vx >= Vy and Vx to
\* (Vx - Vy) mod 256; 8xy7 (SUBN) sets VF to 1 exactly when Vy >= Vx and Vx
\* to (Vy - Vx) mod 256.
C16_SubSetsNotBorrow ==
    [][ (step' = "cycle" /\ (IsSub(opcode') \/ IsSubn(opcode')))
          => LET x == N1(opcode')
                 a == IF IsSub(opcode') THEN chip8.regs[N1(opcode')]
                      ELSE chip8.regs[N2(opcode')]
                 b == IF IsSub(opcode') THEN chip8.regs[N2(opcode')]
                      ELSE chip8.regs[N1(opcode')]
             IN /\ chip8'.regs[15] = (IF a >= b THEN 1 ELSE 0)
                /\ x # 15 => chip8'.regs[x] = (a - b + 256) % 256 ]_vars

\* C17: Fx33 writes the hundreds, tens and ones digits of Vx to memory[I],
\* memory[I+1], memory[I+2], and changes no other memory byte and no register.
C17_StoreBcd ==
    [][ (step' = "cycle" /\ IsBcd(opcode'))
          => LET v == chip8.regs[N1(opcode')]
                 at == chip8.i
             IN /\ chip8'.ram[at] = Bcd(v)[1]
                /\ chip8'.ram[at + 1] = Bcd(v)[2]
                /\ chip8'.ram[at + 2] = Bcd(v)[3]
                /\ \A a \in 0 .. RAM_SIZE - 1 :
                     a \notin {at, at + 1, at + 2} => chip8'.ram[a] = chip8.ram[a]
                /\ chip8'.regs = chip8.regs
                /\ chip8'.i = chip8.i ]_vars

\* C20: 8xy6 (SHR) sets VF to Vx mod 2 and Vx to Vx div 2; 8xyE (SHL) sets VF
\* to the most significant bit of Vx and Vx to (2 * Vx) mod 256.
C20_ShiftsSetVF ==
    [][ (step' = "cycle" /\ (IsShr(opcode') \/ IsShl(opcode')))
          => LET x == N1(opcode')
                 v == chip8.regs[N1(opcode')]
             IN IF IsShr(opcode')
                THEN /\ chip8'.regs[15] = v % 2
                     /\ x # 15 => chip8'.regs[x] = v \div 2
                ELSE /\ chip8'.regs[15] = v \div 128
                     /\ x # 15 => chip8'.regs[x] = (2 * v) % 256 ]_vars

MemAccesses ==
    CASE step = "load" /\ chip8.err = "None" ->
           {PROGRAM_START + k - 1 : k \in 1 .. Len(rom)}
      [] step = "cycle" ->
           get_opcode_reads(fetch_pc)
             \cup (IF instruction # NoInstruction
                      /\ instruction.instruction = "not_implemented"
                   THEN get_opcode_reads((chip8.pc - 2) % U16) ELSE {})
      [] OTHER -> {}

IsDraw(w) == N0(w) = 13

\* bit c of a sprite row, counted from the most significant bit
SpriteBit(byte, c) == (byte \div Pow2(7 - c)) % 2

\* the framebuffer pixels the sprite of Dxyn covers in machine m, with
\* wraparound on the 64 by 32 display
SpritePixels(w, m) ==
    { << (m.regs[N1(w)] + c) % 64, (m.regs[N2(w)] + r) % 32 >> :
        <<r, c>> \in { rc \in (0 .. 15) \X (0 .. 7) :
                         /\ rc[1] < N3(w)
                         /\ SpriteBit(m.ram[Addr(m.i + rc[1])], rc[2]) = 1 } }

\* C21: Dxyn XORs the sprite at I onto the framebuffer, the pixel of column c
\* and row r landing at ((Vx + c) mod 64, (Vy + r) mod 32); VF becomes 1 if a
\* lit pixel is erased and 0 otherwise.
C21_DrawWrapsAround ==
    [][ (step' = "cycle" /\ IsDraw(opcode'))
          => LET px == SpritePixels(opcode', chip8) IN
             /\ chip8'.fb = (chip8.fb \ px) \cup (px \ chip8.fb)
             /\ chip8'.regs[15] = (IF chip8.fb \cap px # {} THEN 1 ELSE 0) ]_vars

IsSys(w) == N0(w) = 0 /\ w \notin {224, 238}

\* C22: executing 0nnn (SYS) changes no register, timer, stack entry or
\* memory byte, leaves PC at the fetch address + 2 and does not stop or crash
\* the machine.
C22_SysIsNoOp ==
    [][ (step' = "cycle" /\ IsSys(opcode'))
          => /\ chip8'.regs = chip8.regs
             /\ chip8'.i = chip8.i
             /\ chip8'.stack = chip8.stack
             /\ chip8'.dt = chip8.dt
             /\ chip8'.st = chip8.st
             /\ chip8'.ram = chip8.ram
             /\ chip8'.pc = chip8.pc + 2
             /\ chip8'.state = "Running" ]_vars

\* C25: of the opcodes 0x0000..0x0FFF, 0x00E0 decodes to CLS, 0x00EE decodes
\* to RET and every other one decodes to SYS.
C25_SpecificBeforeGeneral ==
    (step = "decode" /\ opcode < 4096)
      => /\ instruction.name =
              (IF opcode = 224 THEN "CLS" ELSE IF opcode = 238 THEN "RET" ELSE "SYS")
         /\ instruction.instruction =
              (IF opcode = 224 THEN "clear" ELSE IF opcode = 238 THEN "return"
               ELSE "sys")

\* C25 witness: 0x00EE, which the general arm also matches, has been decoded
\* to RET.
C25_Witness ==
    step = "decode" /\ opcode = 238 /\ instruction.name = "RET"

\* C23: at machine initialization all 4096 memory bytes and all 16
\* general-purpose registers are 0 and PC is the program start address 0x200.
C23_InitialState ==
    step = "new"
      => /\ DOMAIN chip8.ram = 0 .. 4095
         /\ \A a \in 0 .. 4095 : chip8.ram[a] = 0
         /\ DOMAIN chip8.regs = 0 .. 15
         /\ \A x \in 0 .. 15 : chip8.regs[x] = 0
         /\ chip8.pc = 512

\* C23 witness: the machine has been created and nothing has been loaded or
\* run yet.
C23_Witness ==
    step = "new" /\ chip8.state = "Created" /\ rom = << >> /\ chip8.pc = PROGRAM_START

\* C24: while the engine is in WaitingForKey the timer cycle still runs: a
\* tick in that state takes 1 off a nonzero DT and a nonzero ST, and no tick
\* changes PC, the V registers, I, the stack, memory or the engine state.
C24_TimersRunWhileWaiting ==
    [][ step' = "tick"
          => /\ chip8'.pc = chip8.pc
             /\ chip8'.regs = chip8.regs
             /\ chip8'.i = chip8.i
             /\ chip8'.stack = chip8.stack
             /\ chip8'.ram = chip8.ram
             /\ chip8'.state = chip8.state
             /\ chip8.state = "WaitingForKey"
                  => /\ chip8'.dt = Max(chip8.dt - 1, 0)
                     /\ chip8'.st = Max(chip8.st - 1, 0)
                     /\ chip8'.dt = Max(dt0 - ticks', 0)
                     /\ chip8'.st = Max(st0 - ticks', 0) ]_vars

\* C24 witness: the engine still waits for a key after two ticks, which took
\* DT from 2 to 0 and ST from 255 to 253.
C24_Witness ==
    /\ chip8.state = "WaitingForKey"
    /\ step = "tick"
    /\ ticks = 2
    /\ dt0 = 2 /\ chip8.dt = 0
    /\ st0 = 255 /\ chip8.st = 253

\* the instructions that set PC themselves: JP, CALL, JP V0, RET, a taken skip
SetsPC(w, m) ==
    \/ N0(w) \in {1, 2, 11}
    \/ w = 238
    \/ IsSkip(w) /\ SkipTaken(w, m)

\* C26: PC is advanced by 2 before the instruction's effect is applied: after
\* a cycle on an instruction that is no jump, call, return or taken skip, PC
\* is the fetch address + 2, and the executing instruction finds at PC - 2 the
\* opcode it was decoded from.
C26_AdvanceBeforeExecute ==
    [][ (step' = "cycle" /\ ~ SetsPC(opcode', chip8))
          => /\ fetch_pc' = chip8.pc
             /\ chip8'.pc = fetch_pc' + 2
             /\ instruction'.instruction = "not_implemented"
                  => chip8'.log = instruction' ]_vars

\* C26 witness: the third instruction of a program has run as
\* not_implemented and has logged itself, found at PC - 2.
C26_Witness ==
    /\ step = "cycle"
    /\ fetch_pc = PROGRAM_START + 4
    /\ chip8.pc = PROGRAM_START + 6
    /\ instruction.instruction = "not_implemented"
    /\ chip8.log = instruction
    /\ chip8.log.opcode = get_opcode(chip8, chip8.pc - 2)

\* C28: building an OpCode from a byte slice gives the opcode exactly when the
\* slice has length 2; for every other length it gives an error that reports
\* the expected length 2 and the actual length, and no opcode.
C28_TryFromChecksLength ==
    step = "try_from"
      => LET s == conv.slice
             r == conv.try_from
         IN IF Len(s) = 2
            THEN r = [ok |-> (s[1] * 256) + s[2]]
            ELSE /\ DOMAIN r = {"err"}
                 /\ r.err = <<"invalid slice length for opcode conversion", 2, Len(s)>>

\* C28 witness: a slice of three bytes has been refused with "expected 2,
\* got 3".
C28_Witness ==
    /\ step = "try_from"
    /\ Len(conv.slice) = 3
    /\ DOMAIN conv.try_from = {"err"}
    /\ conv.try_from.err[2] = 2
    /\ conv.try_from.err[3] = 3

====
